---- MODULE Spec2Model ----
(***************************************************************************)
(* Model of the two vlCVX reconciliation scripts of                        *)
(* script/vlCVX/fix_may_distrib:                                           *)
(*   analyze_voting.py   calculate_gauge_rewards, analyze_group_totals     *)
(*   analyze_choices.py  analyze_choices                                   *)
(*                                                                         *)
(* Text is modelled as a sequence of one-character strings, so that        *)
(* str.lower(), str(int), int(str) and Decimal(str) are computed and not   *)
(* assumed.  decimal.Decimal is modelled at the default context the        *)
(* scripts run under: 28 significant digits, ROUND_HALF_EVEN.  A Decimal   *)
(* of integral value small enough for the model is carried as an integer;  *)
(* the quotient and the product of lines 195-196 are carried as a          *)
(* coefficient (a digit sequence) and an exponent.                         *)
(***************************************************************************)
EXTENDS Integers, Sequences, FiniteSets, TLC

VARIABLES
    pc,                      \* position of the running script
    voting_data,             \* Round95Aggregated.json: <<key, gauge_data>> in file order
    voting_data_normalized,  \* calculate_gauge_rewards: lower-cased key -> gauge_data
    gi,                      \* index into GAUGE_REWARDS of the gauge being processed
    ri,                      \* index into gauge.rewards of the reward being processed
    voter_rewards,           \* voter -> token -> amount
    processed,               \* per finished (gauge, reward): the loop body's locals
    todo,                    \* analyze_group_totals: keys of voter_rewards not yet visited
    forwarder_totals,
    non_forwarder_totals,
    other_totals,
    other_addresses,
    pre_del,                 \* Round95PreDel.json
    post_del,                \* Round95PostDel.json
    pre_del_normalized,
    post_del_normalized,
    disappeared_report,      \* address -> printed <<choice, amount>> lines
    changes_report           \* address -> printed <<choice, before, after>> lines

vars == <<pc, voting_data, voting_data_normalized, gi, ri, voter_rewards, processed,
          todo, forwarder_totals, non_forwarder_totals, other_totals, other_addresses,
          pre_del, post_del, pre_del_normalized, post_del_normalized,
          disappeared_report, changes_report>>

allocVars == <<voting_data, voting_data_normalized, gi, ri, processed>>
groupVars == <<todo, forwarder_totals, non_forwarder_totals, other_totals, other_addresses>>
choiceVars == <<pre_del, post_del, pre_del_normalized, post_del_normalized,
                disappeared_report, changes_report>>

----------------------------------------------------------------------------
(* Bounds of the model.                                                    *)

\* largest vote weight of the freely chosen gauge
MaxVote == 2
\* largest total of the freely chosen gauge
MaxTotal == 3
\* largest number of keys of a freely chosen voter_rewards mapping
MaxRewarded == 2
\* largest amount of a freely chosen voter_rewards entry
MaxAmount == 2

----------------------------------------------------------------------------
(* Text.                                                                   *)

EmptyMap == [x \in {} |-> 0]

RECURSIVE SumSeq(_)
SumSeq(s) == IF s = <<>> THEN 0 ELSE s[1] + SumSeq(Tail(s))

LowerChar(c) ==
    CASE c = "A" -> "a" [] c = "B" -> "b" [] c = "C" -> "c"
      [] c = "D" -> "d" [] c = "E" -> "e" [] c = "F" -> "f"
      [] OTHER -> c

\* str.lower()
Lower(s) == [i \in DOMAIN s |-> LowerChar(s[i])]

DigitChars == <<"0", "1", "2", "3", "4", "5", "6", "7", "8", "9">>

DigitChar(d) == DigitChars[d + 1]

IsDigitChar(c) == \E d \in 0..9 : DigitChars[d + 1] = c

DigitValue(c) == CHOOSE d \in 0..9 : DigitChars[d + 1] = c

\* str(n) of a non-negative int
RECURSIVE Str(_)
Str(n) == IF n < 10 THEN <<DigitChar(n)>> ELSE Append(Str(n \div 10), DigitChar(n % 10))

\* whether int(s) / Decimal(s) accepts s: here, a non-empty run of digits
IsNumeric(s) == s # <<>> /\ \A i \in DOMAIN s : IsDigitChar(s[i])

\* int(s) of a run of digits
RECURSIVE ParseInt(_)
ParseInt(s) ==
    IF s = <<>> THEN 0
    ELSE 10 * ParseInt(SubSeq(s, 1, Len(s) - 1)) + DigitValue(s[Len(s)])

----------------------------------------------------------------------------
(* decimal.Decimal under the default context.                              *)

\* decimal.getcontext().prec
Prec == 28

RECURSIVE Digits(_)
Digits(n) == IF n < 10 THEN <<n>> ELSE Append(Digits(n \div 10), n % 10)

RECURSIVE DigitsValue(_)
DigitsValue(d) ==
    IF d = <<>> THEN 0 ELSE 10 * DigitsValue(SubSeq(d, 1, Len(d) - 1)) + d[Len(d)]

RECURSIVE Pow10(_)
Pow10(k) == IF k = 0 THEN 1 ELSE 10 * Pow10(k - 1)

RECURSIVE IncAt(_, _)
IncAt(d, i) ==
    IF i = 0 THEN <<1>> \o d
    ELSE IF d[i] = 9 THEN IncAt([d EXCEPT ![i] = 0], i - 1)
    ELSE [d EXCEPT ![i] = @ + 1]

\* a coefficient rounded away from zero in its last place, kept within Prec digits
RoundUp(coef, exp) ==
    LET c == IncAt(coef, Len(coef))
    IN IF Len(c) > Prec THEN [coef |-> SubSeq(c, 1, Prec), exp |-> exp + 1]
       ELSE [coef |-> c, exp |-> exp]

RECURSIVE StripZeros(_)
StripZeros(d) == IF Len(d) > 1 /\ d[1] = 0 THEN StripZeros(Tail(d)) ELSE d

\* long division r / t, one quotient digit at a time, to Prec significant digits
RECURSIVE LongDiv(_, _, _, _)
LongDiv(r, t, digs, exp) ==
    IF r = 0 \/ Len(digs) >= Prec THEN [coef |-> digs, exp |-> exp, rem |-> r]
    ELSE LET d == (r * 10) \div t
         IN LongDiv((r * 10) % t, t,
                    IF digs = <<>> /\ d = 0 THEN digs ELSE Append(digs, d),
                    exp - 1)

\* Decimal(w) / Decimal(t), t > 0: the quotient correctly rounded (half-even)
\* to Prec significant digits
DecDiv(w, t) ==
    IF w = 0 THEN [coef |-> <<0>>, exp |-> 0]
    ELSE LET q == LongDiv(w % t, t, IF w \div t > 0 THEN Digits(w \div t) ELSE <<>>, 0)
             up == \/ 2 * q.rem > t
                   \/ 2 * q.rem = t /\ q.coef[Len(q.coef)] % 2 = 1
         IN IF q.rem # 0 /\ up THEN RoundUp(q.coef, q.exp)
            ELSE [coef |-> q.coef, exp |-> q.exp]

RECURSIVE MulFrom(_, _, _, _, _)
MulFrom(digs, m, i, carry, out) ==
    IF i = 0
    THEN IF carry = 0 THEN out ELSE MulFrom(digs, m, 0, carry \div 10, <<carry % 10>> \o out)
    ELSE LET v == digs[i] * m + carry
         IN MulFrom(digs, m, i - 1, v \div 10, <<v % 10>> \o out)

\* the context's rounding of an exact result to Prec significant digits (half-even)
DecFix(coef, exp) ==
    IF Len(coef) <= Prec THEN [coef |-> coef, exp |-> exp]
    ELSE LET keep == SubSeq(coef, 1, Prec)
             drop == SubSeq(coef, Prec + 1, Len(coef))
             rest == \E i \in 2..Len(drop) : drop[i] # 0
             up == \/ drop[1] > 5
                   \/ drop[1] = 5 /\ rest
                   \/ drop[1] = 5 /\ ~rest /\ keep[Prec] % 2 = 1
             e == exp + Len(drop)
         IN IF up THEN RoundUp(keep, e) ELSE [coef |-> keep, exp |-> e]

\* Decimal(m) * x, m a non-negative integer
DecMul(m, x) == DecFix(StripZeros(MulFrom(x.coef, m, Len(x.coef), 0, <<>>)), x.exp)

\* x.quantize(Decimal('1'), rounding=ROUND_DOWN): the integer part of x, or
\* InvalidOperation when it has more than Prec digits
Quantize(x) ==
    IF x.exp >= 0
    THEN IF x.coef # <<0>> /\ Len(x.coef) + x.exp > Prec
         THEN [ok |-> FALSE, amount |-> 0]
         ELSE [ok |-> TRUE, amount |-> DigitsValue(x.coef) * Pow10(x.exp)]
    ELSE IF -x.exp >= Len(x.coef) THEN [ok |-> TRUE, amount |-> 0]
    ELSE [ok |-> TRUE, amount |-> DigitsValue(SubSeq(x.coef, 1, Len(x.coef) + x.exp))]

----------------------------------------------------------------------------
(* analyze_voting.py: configuration.  Addresses are cut to a few hex       *)
(* characters and reward amounts to small integers; the tables keep what   *)
(* the code's tables have: mixed-case (checksummed) gauge addresses, a     *)
(* gauge paying several tokens, two gauges paying the same token, and      *)
(* lower-case entries in the three classification sets.                    *)

TokenA == "0x41D5"
TokenB == "0xA0b8"

GAUGE_REWARDS ==
    << [gauge_address |-> <<"2", "6", "F">>,
        rewards |-> << [amount |-> 10, symbol |-> TokenA] >>],
       [gauge_address |-> <<"d", "0", "B">>,
        rewards |-> << [amount |-> 3, symbol |-> TokenA],
                       [amount |-> 7, symbol |-> TokenB] >>] >>

SELF_VOTERS == { <<"0", "d">> }

FORWARDERS == { <<"e", "a">>, <<"7", "8">> }

NON_FORWARDERS == { <<"a", "e">> }

----------------------------------------------------------------------------
(* analyze_voting.py: calculate_gauge_rewards.                             *)

\* gauge_data.get("total", 0)
Total(gauge_data) == IF "total" \in DOMAIN gauge_data THEN gauge_data.total ELSE 0

\* gauge_data.get("votes", {}).items(), in insertion order
Votes(gauge_data) == IF "votes" \in DOMAIN gauge_data THEN gauge_data.votes ELSE <<>>

\* {k.lower(): v for k, v in voting_data.items()}: a later key overwrites an
\* earlier one of the same lower-cased form
RECURSIVE NormalizeKeys(_)
NormalizeKeys(entries) ==
    IF entries = <<>> THEN EmptyMap
    ELSE LET n == Len(entries)
         IN (Lower(entries[n].key) :> entries[n].data)
                @@ NormalizeKeys(SubSeq(entries, 1, n - 1))

\* VoteAmount, were a value that does not parse counted as a weight of zero
VoteAmountZeroOnError(vote, total_amount, total_votes) ==
    IF ~IsNumeric(vote) THEN [ok |-> TRUE, amount |-> 0]
    ELSE Quantize(DecMul(total_amount, DecDiv(ParseInt(vote), total_votes)))

\* the try block of lines 193-199 for one voter: the truncated amount, or
\* ok = FALSE when Decimal(str(vote)) or quantize raises InvalidOperation
VoteAmount(vote, total_amount, total_votes) ==
    IF ~IsNumeric(vote) THEN [ok |-> FALSE, amount |-> 0]
    ELSE Quantize(DecMul(total_amount, DecDiv(ParseInt(vote), total_votes)))

\* voter_shares after the loop of lines 192-204, in insertion order
RECURSIVE TruncatedShares(_, _, _)
TruncatedShares(votes, total_amount, total_votes) ==
    IF votes = <<>> THEN <<>>
    ELSE LET r == VoteAmount(votes[1].vote, total_amount, total_votes)
             rest == TruncatedShares(Tail(votes), total_amount, total_votes)
         IN IF r.ok THEN <<[voter |-> votes[1].voter, amount |-> r.amount]>> \o rest
            ELSE rest

\* distributed after the loop
Distributed(shares) == SumSeq([i \in DOMAIN shares |-> shares[i].amount])

\* RemainderCorrected, were the remainder left out
RemainderDropped(shares, total_amount) == shares

\* RemainderCorrected, were the remainder given to the first voter
RemainderToFirst(shares, total_amount) ==
    IF shares = <<>> THEN shares
    ELSE [shares EXCEPT ![1].amount = @ + (total_amount - Distributed(shares))]

\* lines 207-210
RemainderCorrected(shares, total_amount) ==
    IF shares = <<>> THEN shares
    ELSE [shares EXCEPT ![Len(shares)].amount = @ + (total_amount - Distributed(shares))]

\* AddAmount, were the amount assigned and not added
AddAmountOverwrites(rewards, voter, token, amount) ==
    LET cur == IF voter \in DOMAIN rewards THEN rewards[voter] ELSE EmptyMap
    IN (voter :> ((token :> amount) @@ cur)) @@ rewards

\* lines 214-218 for one voter
AddAmount(rewards, voter, token, amount) ==
    LET cur == IF voter \in DOMAIN rewards THEN rewards[voter] ELSE EmptyMap
        old == IF token \in DOMAIN cur THEN cur[token] ELSE 0
    IN (voter :> ((token :> old + amount) @@ cur)) @@ rewards

\* the loop of lines 213-218
RECURSIVE AddShares(_, _, _)
AddShares(rewards, shares, token) ==
    IF shares = <<>> THEN rewards
    ELSE AddShares(AddAmount(rewards, shares[1].voter, token, shares[1].amount),
                   Tail(shares), token)

GaugeAddress == Lower(GAUGE_REWARDS[gi].gauge_address)

InGaugeLoop == pc = "gauges" /\ gi <= Len(GAUGE_REWARDS)

\* GaugeNotFound, were the loop left (break) and not continued
GaugeNotFoundAborts ==
    /\ InGaugeLoop
    /\ GaugeAddress \notin DOMAIN voting_data_normalized
    /\ gi' = Len(GAUGE_REWARDS) + 1
    /\ UNCHANGED <<pc, voting_data, voting_data_normalized, ri, voter_rewards, processed,
                   groupVars, choiceVars>>

\* lines 174-176
GaugeNotFound ==
    /\ InGaugeLoop
    /\ GaugeAddress \notin DOMAIN voting_data_normalized
    /\ gi' = gi + 1
    /\ UNCHANGED <<pc, voting_data, voting_data_normalized, ri, voter_rewards, processed,
                   groupVars, choiceVars>>

\* lines 178-183
GaugeNoVotes ==
    /\ InGaugeLoop
    /\ GaugeAddress \in DOMAIN voting_data_normalized
    /\ Total(voting_data_normalized[GaugeAddress]) = 0
    /\ gi' = gi + 1
    /\ UNCHANGED <<pc, voting_data, voting_data_normalized, ri, voter_rewards, processed,
                   groupVars, choiceVars>>

\* lines 185-218, one reward of the gauge
ProcessReward ==
    /\ InGaugeLoop
    /\ GaugeAddress \in DOMAIN voting_data_normalized
    /\ Total(voting_data_normalized[GaugeAddress]) # 0
    /\ LET gauge == GAUGE_REWARDS[gi]
           gauge_data == voting_data_normalized[GaugeAddress]
           total_votes == Total(gauge_data)
           reward == gauge.rewards[ri]
       IN \E truncated \in {TruncatedShares(Votes(gauge_data), reward.amount, total_votes)} :
          \E voter_shares \in {RemainderCorrected(truncated, reward.amount)} :
             /\ voter_rewards' = AddShares(voter_rewards, voter_shares, reward.symbol)
             /\ processed' = Append(processed,
                    [gauge |-> gi, reward |-> ri, token |-> reward.symbol,
                     total_amount |-> reward.amount, total_votes |-> total_votes,
                     votes |-> Votes(gauge_data),
                     truncated |-> truncated, voter_shares |-> voter_shares])
             /\ IF ri < Len(gauge.rewards)
                THEN ri' = ri + 1 /\ gi' = gi
                ELSE ri' = 1 /\ gi' = gi + 1
    /\ UNCHANGED <<pc, voting_data, voting_data_normalized, groupVars, choiceVars>>

\* line 220
Return ==
    /\ pc = "gauges"
    /\ gi > Len(GAUGE_REWARDS)
    /\ pc' = "returned"
    /\ UNCHANGED <<voting_data, voting_data_normalized, gi, ri, voter_rewards, processed,
                   groupVars, choiceVars>>

(* The tally read from Round95Aggregated.json.  One configured gauge holds *)
(* any votes mapping within the bounds; the other holds one of a few fixed *)
(* entries, or none.                                                       *)

TallyVoters == { <<"e", "a">>, <<"E", "A">>, <<"0", "d">> }

\* str(vote) of the vote values: the integers 0..MaxVote and a JSON string
VoteStrings == {Str(n) : n \in 0..MaxVote} \cup { <<"a", "b", "c">> }

VoteEntries == [voter : TallyVoters, vote : VoteStrings]

FreeVotes ==
    UNION { {s \in [1..n -> VoteEntries] :
                 \A i, j \in 1..n : i # j => s[i].voter # s[j].voter}
            : n \in 0..Cardinality(TallyVoters) }

FreeGaugeData == [total : 1..MaxTotal, votes : FreeVotes]

Vote(voter, n) == [voter |-> voter, vote |-> Str(n)]

\* the fixed entries for gauge g: absent; found under its checksummed key;
\* zero or missing total; missing votes; two keys of the same lower-cased form
FixedEntries(g) ==
    LET mixed == GAUGE_REWARDS[g].gauge_address
        lower == Lower(mixed)
        thirds == [total |-> 3,
                   votes |-> << Vote(<<"0", "d">>, 1), Vote(<<"E", "A">>, 1),
                                Vote(<<"e", "a">>, 1) >>]
        percent == [total |-> 100,
                    votes |-> << Vote(<<"e", "a">>, 50), Vote(<<"0", "d">>, 30),
                                 Vote(<<"E", "A">>, 20) >>]
        nototal == [votes |-> << Vote(<<"e", "a">>, 1) >>]
        novotes == [total |-> 3]
        zero == [total |-> 0, votes |-> << Vote(<<"e", "a">>, 1) >>]
    IN { <<>>,
         << [key |-> mixed, data |-> thirds] >>,
         << [key |-> lower, data |-> percent] >>,
         << [key |-> lower, data |-> nototal] >>,
         << [key |-> mixed, data |-> novotes] >>,
         << [key |-> lower, data |-> zero] >>,
         << [key |-> lower, data |-> zero], [key |-> mixed, data |-> thirds] >> }

Tallies ==
    { << [key |-> Lower(GAUGE_REWARDS[1].gauge_address), data |-> d] >> \o f
        : d \in FreeGaugeData, f \in FixedEntries(2) }
    \cup
    { f \o << [key |-> Lower(GAUGE_REWARDS[2].gauge_address), data |-> d] >>
        : d \in FreeGaugeData, f \in FixedEntries(1) }

----------------------------------------------------------------------------
(* analyze_voting.py: analyze_group_totals.                                *)

\* Classify, were the key compared as it is spelled
ClassifyCaseSensitive(key) ==
    IF key \in SELF_VOTERS THEN "self"
    ELSE IF Lower(key) \in FORWARDERS THEN "forwarder"
    ELSE IF Lower(key) \in NON_FORWARDERS THEN "non_forwarder"
    ELSE "other"

\* lines 232-244: the group of a key of voter_rewards
Classify(key) ==
    LET voter == Lower(key)
    IN IF voter \in SELF_VOTERS THEN "self"
       ELSE IF voter \in FORWARDERS THEN "forwarder"
       ELSE IF voter \in NON_FORWARDERS THEN "non_forwarder"
       ELSE "other"

\* AddTokens, were the amount assigned and not added
AddTokensOverwrites(totals, token_amounts) ==
    [token \in DOMAIN totals \cup DOMAIN token_amounts |->
        IF token \in DOMAIN token_amounts THEN token_amounts[token] ELSE totals[token]]

\* lines 249-252: a voter's token amounts added into a totals mapping
AddTokens(totals, token_amounts) ==
    [token \in DOMAIN totals \cup DOMAIN token_amounts |->
        (IF token \in DOMAIN totals THEN totals[token] ELSE 0)
            + (IF token \in DOMAIN token_amounts THEN token_amounts[token] ELSE 0)]

\* the next item of voter_rewards.items(); any order of the keys is modelled
Visit(key) ==
    /\ pc = "analyze"
    /\ key \in todo
    /\ todo' = todo \ {key}
    /\ UNCHANGED <<pc, voter_rewards, allocVars, choiceVars>>

\* lines 235-236
SkipSelfVoter ==
    \E key \in todo :
        /\ Visit(key)
        /\ Classify(key) = "self"
        /\ UNCHANGED <<forwarder_totals, non_forwarder_totals, other_totals,
                       other_addresses>>

\* lines 239-240, 249-252
AddForwarder ==
    \E key \in todo :
        /\ Visit(key)
        /\ Classify(key) = "forwarder"
        /\ forwarder_totals' = AddTokens(forwarder_totals, voter_rewards[key])
        /\ UNCHANGED <<non_forwarder_totals, other_totals, other_addresses>>

\* lines 241-242, 249-252
AddNonForwarder ==
    \E key \in todo :
        /\ Visit(key)
        /\ Classify(key) = "non_forwarder"
        /\ non_forwarder_totals' = AddTokens(non_forwarder_totals, voter_rewards[key])
        /\ UNCHANGED <<forwarder_totals, other_totals, other_addresses>>

\* lines 243-258
AddOther ==
    \E key \in todo :
        /\ Visit(key)
        /\ Classify(key) = "other"
        /\ other_totals' = AddTokens(other_totals, voter_rewards[key])
        /\ LET voter == Lower(key)
               own == IF voter \in DOMAIN other_addresses
                      THEN other_addresses[voter] ELSE EmptyMap
           IN other_addresses' =
                  (voter :> AddTokens(own, voter_rewards[key])) @@ other_addresses
        /\ UNCHANGED <<forwarder_totals, non_forwarder_totals>>

\* lines 260-278: the loop is over and the four mappings are printed
PrintTotals ==
    /\ pc = "analyze"
    /\ todo = {}
    /\ pc' = "printed"
    /\ UNCHANGED <<voter_rewards, allocVars, groupVars, choiceVars>>

(* Any voter_rewards mapping within the bounds: keys in lower and in mixed *)
(* case of each group, each with an amount of one or of both tokens.       *)

GroupKeys ==
    { <<"0", "d">>, <<"0", "D">>, <<"e", "a">>, <<"E", "a">>,
      <<"a", "e">>, <<"A", "E">>, <<"b", "b">>, <<"B", "b">> }

TokenAmounts ==
    [{TokenA} -> 1..MaxAmount] \cup [{TokenA, TokenB} -> 1..MaxAmount]

RewardMaps ==
    UNION { [K -> TokenAmounts] :
              K \in {S \in SUBSET GroupKeys : Cardinality(S) <= MaxRewarded} }

----------------------------------------------------------------------------
(* analyze_choices.py: analyze_choices.                                    *)

TARGET_CHOICES == {139, 408, 129, 27, 424, 179, 363, 384, 97, 167, 533}

\* item.get("choice", {})
Choice(item) == IF "choice" \in DOMAIN item THEN item.choice ELSE EmptyMap

\* {item["voter"].lower(): item for item in snapshot}: a later record
\* overwrites an earlier one of the same lower-cased address
RECURSIVE NormalizeVoters(_)
NormalizeVoters(snapshot) ==
    IF snapshot = <<>> THEN EmptyMap
    ELSE LET n == Len(snapshot)
         IN (Lower(snapshot[n].voter) :> snapshot[n])
                @@ NormalizeVoters(SubSeq(snapshot, 1, n - 1))

\* lines 135-142
RelevantDisappeared(pre, post) ==
    {voter \in DOMAIN pre \ DOMAIN post :
        \E choice \in TARGET_CHOICES : Str(choice) \in DOMAIN Choice(pre[voter])}

\* TrackedLines, were every choice of the voter printed
AllLines(choices) == { <<choice, choices[choice]>> : choice \in DOMAIN choices }

\* lines 148-151: the lines printed for one disappeared voter
TrackedLines(choices) ==
    { <<choice, choices[choice]>> :
        choice \in {c \in DOMAIN choices : ParseInt(c) \in TARGET_CHOICES} }

\* choices.get(str(choice), 0)
AmountOf(choices, choice) ==
    IF Str(choice) \in DOMAIN choices THEN choices[Str(choice)] ELSE 0

\* lines 160-163
HasTargetChoices(pre_choices, post_choices) ==
    \E choice \in TARGET_CHOICES :
        Str(choice) \in DOMAIN pre_choices \/ Str(choice) \in DOMAIN post_choices

\* Differences, were every target choice the voter holds listed, changed or not
DifferencesOfHeld(pre_choices, post_choices) ==
    { <<choice, AmountOf(pre_choices, choice), AmountOf(post_choices, choice)>> :
        choice \in {c \in TARGET_CHOICES :
                       Str(c) \in DOMAIN pre_choices \/ Str(c) \in DOMAIN post_choices} }

\* lines 169-176
Differences(pre_choices, post_choices) ==
    { <<choice, AmountOf(pre_choices, choice), AmountOf(post_choices, choice)>> :
        choice \in {c \in TARGET_CHOICES :
                       AmountOf(pre_choices, c) # AmountOf(post_choices, c)} }

\* lines 125-132
NormalizeSnapshots ==
    /\ pc = "choices"
    /\ pre_del_normalized' = NormalizeVoters(pre_del)
    /\ post_del_normalized' = NormalizeVoters(post_del)
    /\ pc' = "disappeared"
    /\ UNCHANGED <<pre_del, post_del, disappeared_report, changes_report,
                   voter_rewards, allocVars, groupVars>>

\* lines 134-151
ReportDisappeared ==
    /\ pc = "disappeared"
    /\ disappeared_report' =
           [voter \in RelevantDisappeared(pre_del_normalized, post_del_normalized) |->
               TrackedLines(Choice(pre_del_normalized[voter]))]
    /\ pc' = "changes"
    /\ UNCHANGED <<pre_del, post_del, pre_del_normalized, post_del_normalized,
                   changes_report, voter_rewards, allocVars, groupVars>>

\* lines 153-183
ReportChanges ==
    /\ pc = "changes"
    /\ LET both == DOMAIN pre_del_normalized \cap DOMAIN post_del_normalized
           pre(v) == Choice(pre_del_normalized[v])
           post(v) == Choice(post_del_normalized[v])
           reported == {v \in both : /\ HasTargetChoices(pre(v), post(v))
                                     /\ Differences(pre(v), post(v)) # {}}
       IN changes_report' = [v \in reported |-> Differences(pre(v), post(v))]
    /\ pc' = "reported"
    /\ UNCHANGED <<pre_del, post_del, pre_del_normalized, post_del_normalized,
                   disappeared_report, voter_rewards, allocVars, groupVars>>

(* The two snapshots: records of three voter keys, two of them the same    *)
(* address in different case, with choice mappings over two tracked IDs    *)
(* and an untracked one, or with no choice field.                          *)

SnapshotVoters == { <<"a", "b">>, <<"A", "B">>, <<"c", "d">> }

\* the mappings that hold the key with one of the amounts, or not at all
Optional(key, amounts) == {EmptyMap} \cup {key :> a : a \in amounts}

ChoiceMaps ==
    { m139 @@ m27 : m139 \in Optional(Str(139), {100}), m27 \in Optional(Str(27), {0, 50}) }
    \cup { Str(5) :> 50, (Str(27) :> 50) @@ (Str(5) :> 50) }

SnapshotRecords ==
    [voter : SnapshotVoters, choice : ChoiceMaps] \cup [voter : SnapshotVoters]

Snapshots(n) == UNION { [1..k -> SnapshotRecords] : k \in 0..n }

GroupIdle ==
    /\ todo = {}
    /\ forwarder_totals = EmptyMap
    /\ non_forwarder_totals = EmptyMap
    /\ other_totals = EmptyMap
    /\ other_addresses = EmptyMap

ChoiceIdle ==
    /\ pre_del = <<>>
    /\ post_del = <<>>
    /\ pre_del_normalized = EmptyMap
    /\ post_del_normalized = EmptyMap
    /\ disappeared_report = EmptyMap
    /\ changes_report = EmptyMap

\* calculate_gauge_rewards entered: lines 168-169 done, the gauge loop not begun
Init ==
    /\ pc = "gauges"
    /\ voting_data \in Tallies
    /\ voting_data_normalized = NormalizeKeys(voting_data)
    /\ gi = 1
    /\ ri = 1
    /\ voter_rewards = EmptyMap
    /\ processed = <<>>
    /\ GroupIdle
    /\ ChoiceIdle

Next ==
    \/ GaugeNotFound
    \/ GaugeNoVotes
    \/ ProcessReward
    \/ Return

Spec == Init /\ [][Next]_vars

AllocIdle ==
    /\ voting_data = <<>>
    /\ voting_data_normalized = EmptyMap
    /\ gi = 1
    /\ ri = 1
    /\ processed = <<>>

\* analyze_group_totals entered with any voter_rewards mapping
InitGroups ==
    /\ pc = "analyze"
    /\ voter_rewards \in RewardMaps
    /\ todo = DOMAIN voter_rewards
    /\ forwarder_totals = EmptyMap
    /\ non_forwarder_totals = EmptyMap
    /\ other_totals = EmptyMap
    /\ other_addresses = EmptyMap
    /\ AllocIdle
    /\ ChoiceIdle

NextGroups ==
    \/ SkipSelfVoter
    \/ AddForwarder
    \/ AddNonForwarder
    \/ AddOther
    \/ PrintTotals

SpecGroups == InitGroups /\ [][NextGroups]_vars

\* analyze_choices entered with the two snapshots loaded
InitChoices ==
    /\ pc = "choices"
    /\ pre_del \in Snapshots(2)
    /\ post_del \in Snapshots(2)
    /\ Len(pre_del) + Len(post_del) <= 3
    /\ pre_del_normalized = EmptyMap
    /\ post_del_normalized = EmptyMap
    /\ disappeared_report = EmptyMap
    /\ changes_report = EmptyMap
    /\ voter_rewards = EmptyMap
    /\ AllocIdle
    /\ GroupIdle

NextChoices ==
    \/ NormalizeSnapshots
    \/ ReportDisappeared
    \/ ReportChanges

SpecChoices == InitChoices /\ [][NextChoices]_vars

----------------------------------------------------------------------------
(* Properties of calculate_gauge_rewards.                                  *)

AllNumeric(votes) == \A i \in DOMAIN votes : IsNumeric(votes[i].vote)

SomeMalformed(votes) == \E i \in DOMAIN votes : ~IsNumeric(votes[i].vote)

ShareVoters(shares) == {shares[i].voter : i \in DOMAIN shares}

\* the amount a share list holds for a voter, 0 when it holds none
AmountIn(shares, voter) ==
    SumSeq([i \in DOMAIN shares |->
               IF shares[i].voter = voter THEN shares[i].amount ELSE 0])

SumOfShares(shares) == SumSeq([i \in DOMAIN shares |-> shares[i].amount])

\* what the remainder correction added to a voter's amount in a processed pair
Correction(p, voter) == AmountIn(p.voter_shares, voter) - AmountIn(p.truncated, voter)

Remainder(p) == p.total_amount - SumOfShares(p.truncated)

\* C1 as stated: for every processed pair with total votes > 0 and only numeric
\* voter entries, the corrected amounts sum to the reward amount, whatever the
\* votes mapping holds (an empty mapping included).
C1_SumEqualsRewardAnyVotes ==
    \A k \in DOMAIN processed :
        LET p == processed[k]
        IN (p.total_votes > 0 /\ AllNumeric(p.votes))
               => SumOfShares(p.voter_shares) = p.total_amount

\* C1 amended: for every processed pair with total votes > 0 and a non-empty
\* votes mapping whose entries are all numeric, the corrected amounts sum to
\* the reward amount exactly.
C1_SumEqualsRewardNonEmptyVotes ==
    \A k \in DOMAIN processed :
        LET p == processed[k]
        IN (p.total_votes > 0 /\ AllNumeric(p.votes) /\ p.votes # <<>>)
               => SumOfShares(p.voter_shares) = p.total_amount

\* a pair of several numeric voters whose truncated amounts fell short of the reward
C1_Witness ==
    \E k \in DOMAIN processed :
        LET p == processed[k]
        IN /\ Len(p.votes) >= 2
           /\ AllNumeric(p.votes)
           /\ SumOfShares(p.truncated) < p.total_amount
           /\ SumOfShares(p.voter_shares) = p.total_amount

\* C4 as stated: in every processed pair the remainder is added to the voter
\* enumerated last in the gauge's votes mapping, and to no other voter.
C4_RemainderToLastEnumerated ==
    \A k \in DOMAIN processed :
        LET p == processed[k]
        IN \A i \in DOMAIN p.votes :
               Correction(p, p.votes[i].voter) =
                   IF i = Len(p.votes) THEN Remainder(p) ELSE 0

\* index of the last entry of a votes mapping whose value parses, 0 when none does
LastNumeric(votes) ==
    IF AllNumeric(votes) /\ votes # <<>> THEN Len(votes)
    ELSE IF \E i \in DOMAIN votes : IsNumeric(votes[i].vote)
    THEN CHOOSE i \in DOMAIN votes :
             /\ IsNumeric(votes[i].vote)
             /\ \A j \in DOMAIN votes : j > i => ~IsNumeric(votes[j].vote)
    ELSE 0

\* C4 amended: in every processed pair the remainder is added to the last
\* voter, in the insertion order of the votes mapping, whose vote value parsed
\* (the voter enumerated last when every value parses), and to no other voter;
\* when no value parsed nothing is added.
C4_RemainderToLastParsed ==
    \A k \in DOMAIN processed :
        LET p == processed[k]
        IN /\ \A i \in DOMAIN p.votes :
                  Correction(p, p.votes[i].voter) =
                      IF i = LastNumeric(p.votes) THEN Remainder(p) ELSE 0
           /\ LastNumeric(p.votes) = 0 => p.voter_shares = <<>>

\* total 3, reward 10, weights [1, 1, 1]: truncated [3, 3, 3], final [3, 3, 4]
C4_Witness ==
    \E k \in DOMAIN processed :
        LET p == processed[k]
        IN /\ p.total_votes = 3
           /\ p.total_amount = 10
           /\ [i \in DOMAIN p.votes |-> p.votes[i].vote] = <<Str(1), Str(1), Str(1)>>
           /\ [i \in DOMAIN p.truncated |-> p.truncated[i].amount] = <<3, 3, 3>>
           /\ [i \in DOMAIN p.voter_shares |-> p.voter_shares[i].amount] = <<3, 3, 4>>

\* C5: in every processed pair, the amount of every voter with a numeric weight
\* before the remainder correction is floor(reward_amount * weight / total),
\* the quotient taken exactly.
C5_TruncatedIsFloorOfExactShare ==
    \A k \in DOMAIN processed :
        LET p == processed[k]
        IN \A i \in DOMAIN p.votes :
               IsNumeric(p.votes[i].vote) =>
                   AmountIn(p.truncated, p.votes[i].voter) =
                       (p.total_amount * ParseInt(p.votes[i].vote)) \div p.total_votes

\* C6 as stated: when a vote value of a pair does not parse, that voter is
\* skipped and the amounts of the pair do not sum to the reward amount.
C6_MalformedBreaksConservation ==
    \A k \in DOMAIN processed :
        LET p == processed[k]
        IN SomeMalformed(p.votes) =>
               /\ \A i \in DOMAIN p.votes :
                      ~IsNumeric(p.votes[i].vote)
                          => p.votes[i].voter \notin ShareVoters(p.voter_shares)
               /\ SumOfShares(p.voter_shares) # p.total_amount

\* C6 amended: when a vote value of a pair does not parse, that voter gets no
\* amount in the pair; if another voter's value parsed, the remainder
\* correction hands the skipped share to the last voter that parsed and the
\* amounts still sum to the reward amount; only when no value parsed is
\* nothing distributed.
C6_MalformedSkippedSumRepaired ==
    \A k \in DOMAIN processed :
        LET p == processed[k]
        IN SomeMalformed(p.votes) =>
               /\ \A i \in DOMAIN p.votes :
                      ~IsNumeric(p.votes[i].vote)
                          => p.votes[i].voter \notin ShareVoters(p.voter_shares)
               /\ \A i \in DOMAIN p.votes :
                      IsNumeric(p.votes[i].vote)
                          => p.votes[i].voter \in ShareVoters(p.voter_shares)
               /\ IF \E i \in DOMAIN p.votes : IsNumeric(p.votes[i].vote)
                  THEN SumOfShares(p.voter_shares) = p.total_amount
                  ELSE p.voter_shares = <<>>

\* a pair with a malformed value of positive weight's worth: the parsed voters'
\* truncated amounts fall short and the corrected amounts sum to the reward
C6_Witness ==
    \E k \in DOMAIN processed :
        LET p == processed[k]
        IN /\ SomeMalformed(p.votes)
           /\ p.voter_shares # <<>>
           /\ Len(p.voter_shares) < Len(p.votes)
           /\ SumOfShares(p.truncated) < p.total_amount
           /\ SumOfShares(p.voter_shares) = p.total_amount

\* whether the tally holds a key of gauge g's lower-cased address
InTally(g) ==
    \E i \in DOMAIN voting_data :
        Lower(voting_data[i].key) = Lower(GAUGE_REWARDS[g].gauge_address)

\* the tally's data for gauge g: that of the last such key
TallyData(g) ==
    LET i == CHOOSE i \in DOMAIN voting_data :
                 /\ Lower(voting_data[i].key) = Lower(GAUGE_REWARDS[g].gauge_address)
                 /\ \A j \in DOMAIN voting_data :
                        j > i => Lower(voting_data[j].key)
                                     # Lower(GAUGE_REWARDS[g].gauge_address)
    IN voting_data[i].data

\* gauge g is absent from the tally or has a zero (or no) total
Skipped(g) ==
    \/ ~InTally(g)
    \/ "total" \notin DOMAIN TallyData(g)
    \/ TallyData(g).total = 0

\* the (gauge, reward) pairs of the configured gauges in S, in table order
RECURSIVE PairsFrom(_, _, _)
PairsFrom(g, r, S) ==
    IF g > Len(GAUGE_REWARDS) THEN <<>>
    ELSE IF r > Len(GAUGE_REWARDS[g].rewards) THEN PairsFrom(g + 1, 1, S)
    ELSE (IF g \in S THEN << <<g, r>> >> ELSE <<>>) \o PairsFrom(g, r + 1, S)

\* voter_rewards of a run over a table that configures only the pairs listed,
\* none of them skipped
RECURSIVE RewardsOfPairs(_)
RewardsOfPairs(pairs) ==
    IF pairs = <<>> THEN EmptyMap
    ELSE LET n == Len(pairs)
             g == pairs[n][1]
             reward == GAUGE_REWARDS[g].rewards[pairs[n][2]]
             data == TallyData(g)
             votes == IF "votes" \in DOMAIN data THEN data.votes ELSE <<>>
         IN AddShares(RewardsOfPairs(SubSeq(pairs, 1, n - 1)),
                      RemainderCorrected(
                          TruncatedShares(votes, reward.amount, data.total),
                          reward.amount),
                      reward.symbol)

NotSkipped == {g \in DOMAIN GAUGE_REWARDS : ~Skipped(g)}

\* C7: once calculate_gauge_rewards has returned, a configured gauge that is
\* absent from the lower-cased tally or has a zero total has no processed
\* pair; every reward of every other configured gauge was processed, in table
\* order, the gauges after a skipped one included; and voter_rewards is what
\* the run computes when the skipped gauges are not configured.
C7_SkippedGaugeAddsNothingRunContinues ==
    pc = "returned" =>
        /\ \A k \in DOMAIN processed : ~Skipped(processed[k].gauge)
        /\ [k \in DOMAIN processed |-> <<processed[k].gauge, processed[k].reward>>]
               = PairsFrom(1, 1, NotSkipped)
        /\ voter_rewards = RewardsOfPairs(PairsFrom(1, 1, NotSkipped))

\* the first gauge was skipped and the second one paid its voters
C7_Witness ==
    /\ pc = "returned"
    /\ Skipped(1)
    /\ ~Skipped(2)
    /\ Len(processed) = Len(GAUGE_REWARDS[2].rewards)
    /\ \E v \in DOMAIN voter_rewards : voter_rewards[v][TokenB] > 0

\* the sum of a voter's amounts over the processed pairs paying a token
RECURSIVE PaidTo(_, _, _)
PaidTo(log, voter, token) ==
    IF log = <<>> THEN 0
    ELSE (IF log[1].token = token THEN AmountIn(log[1].voter_shares, voter) ELSE 0)
             + PaidTo(Tail(log), voter, token)

\* C10: at every point of the run, voter_rewards[voter][token] is the sum of
\* the voter's amounts over the processed pairs paying that token, and
\* voter_rewards holds an entry exactly for the (voter, token) a processed
\* pair computed an amount for.
C10_RewardsAccumulateAcrossGauges ==
    \A voter \in TallyVoters \cup DOMAIN voter_rewards :
        \A token \in {TokenA, TokenB} :
            LET paid == \E k \in DOMAIN processed :
                            /\ processed[k].token = token
                            /\ voter \in ShareVoters(processed[k].voter_shares)
                held == /\ voter \in DOMAIN voter_rewards
                        /\ token \in DOMAIN voter_rewards[voter]
            IN /\ held <=> paid
               /\ held => voter_rewards[voter][token] = PaidTo(processed, voter, token)

\* two gauges paid the same token to the same voter and both amounts are counted
C10_Witness ==
    \E j, k \in DOMAIN processed :
        \E voter \in DOMAIN voter_rewards :
            /\ processed[j].gauge # processed[k].gauge
            /\ processed[j].token = processed[k].token
            /\ AmountIn(processed[j].voter_shares, voter) > 0
            /\ AmountIn(processed[k].voter_shares, voter) > 0
            /\ voter_rewards[voter][processed[j].token] =
                   AmountIn(processed[j].voter_shares, voter)
                       + AmountIn(processed[k].voter_shares, voter)

\* the sum of the weights of a votes mapping whose values all parse
WeightSum(votes) == SumSeq([i \in DOMAIN votes |-> ParseInt(votes[i].vote)])

\* C11: in every processed pair whose vote weights are non-negative numbers
\* that sum to the gauge's total, the remainder given to the last voter is at
\* least 0 and strictly less than the number of voters of the gauge, every
\* voter's final amount is non-negative, and the last voter's final amount
\* exceeds its truncated amount by less than the number of voters.
C11_RemainderBelowVoterCount ==
    \A k \in DOMAIN processed :
        LET p == processed[k]
            n == Len(p.votes)
        IN (AllNumeric(p.votes) /\ WeightSum(p.votes) = p.total_votes) =>
               /\ 0 <= Remainder(p)
               /\ Remainder(p) < n
               /\ \A i \in DOMAIN p.voter_shares : p.voter_shares[i].amount >= 0
               /\ Correction(p, p.votes[n].voter) < n

----------------------------------------------------------------------------
(* Properties of analyze_group_totals.                                     *)

\* the keys of voter_rewards the loop has visited
Visited == DOMAIN voter_rewards \ todo

Held(totals, token) == IF token \in DOMAIN totals THEN totals[token] ELSE 0

\* the sum of voter_rewards[key][token] over the keys of K that hold the token
RECURSIVE SumOfKeys(_, _)
SumOfKeys(K, token) ==
    IF K = {} THEN 0
    ELSE LET key == CHOOSE k \in K : TRUE
         IN Held(voter_rewards[key], token) + SumOfKeys(K \ {key}, token)

IsSelfVoterKey(key) == \E self \in SELF_VOTERS : Lower(key) = self

\* C2: at every point of analyze_group_totals, whatever voter_rewards holds,
\* the three totals together hold for each token the amounts of the visited
\* keys that are not self-voter addresses in any letter case, and nothing of a
\* self-voter key; no self-voter address has an entry in other_addresses.
C2_SelfVotersExcluded ==
    /\ \A token \in {TokenA, TokenB} :
           Held(forwarder_totals, token) + Held(non_forwarder_totals, token)
                   + Held(other_totals, token)
               = SumOfKeys({k \in Visited : ~IsSelfVoterKey(k)}, token)
    /\ \A address \in DOMAIN other_addresses :
           /\ address \notin SELF_VOTERS
           /\ \A key \in DOMAIN voter_rewards :
                  IsSelfVoterKey(key) => Lower(key) # address

\* a self-voter key in mixed case was visited, beside a key that was counted
C2_Witness ==
    /\ pc = "printed"
    /\ \E key \in DOMAIN voter_rewards : IsSelfVoterKey(key) /\ key \notin SELF_VOTERS
    /\ DOMAIN other_totals # {}

\* C3: at every point of analyze_group_totals, for every token the forwarder
\* total is the sum of voter_rewards[v][token] over exactly the visited keys
\* whose lower-cased form is in FORWARDERS, and the non-forwarder total the
\* same over the visited keys whose lower-cased form is in NON_FORWARDERS; a
\* total has an entry for a token exactly when such a key holds the token.
C3_GroupTotalsAreMemberSums ==
    LET fwd == {k \in Visited : Lower(k) \in FORWARDERS}
        non == {k \in Visited : Lower(k) \in NON_FORWARDERS}
    IN \A token \in {TokenA, TokenB} :
           /\ Held(forwarder_totals, token) = SumOfKeys(fwd, token)
           /\ Held(non_forwarder_totals, token) = SumOfKeys(non, token)
           /\ token \in DOMAIN forwarder_totals
                  <=> \E k \in fwd : token \in DOMAIN voter_rewards[k]
           /\ token \in DOMAIN non_forwarder_totals
                  <=> \E k \in non : token \in DOMAIN voter_rewards[k]

\* two keys of the same forwarder address, in lower and in mixed case, both counted
C3_Witness ==
    /\ pc = "printed"
    /\ \E j, k \in DOMAIN voter_rewards :
           /\ j # k
           /\ Lower(j) \in FORWARDERS
           /\ Lower(k) \in FORWARDERS
           /\ forwarder_totals[TokenA] = voter_rewards[j][TokenA] + voter_rewards[k][TokenA]

----------------------------------------------------------------------------
(* Properties of analyze_choices.                                          *)

Addresses(snapshot) == {Lower(snapshot[i].voter) : i \in DOMAIN snapshot}

\* the choice mapping a snapshot holds for an address: that of its last record
ChoicesOf(snapshot, address) ==
    LET i == CHOOSE i \in DOMAIN snapshot :
                 /\ Lower(snapshot[i].voter) = address
                 /\ \A j \in DOMAIN snapshot :
                        j > i => Lower(snapshot[j].voter) # address
    IN IF "choice" \in DOMAIN snapshot[i] THEN snapshot[i].choice ELSE EmptyMap

TrackedKeys == {Str(id) : id \in TARGET_CHOICES}

\* C8: once the disappeared voters are reported, the reported addresses are
\* exactly the lower-cased addresses of the pre snapshot that the post
\* snapshot lacks and whose pre choice mapping has a key that is the string
\* form of a target choice ID; each is reported with exactly those keys, each
\* with its pre amount.
C8_DisappearedReport ==
    pc \in {"changes", "reported"} =>
        /\ DOMAIN disappeared_report =
               {a \in Addresses(pre_del) \ Addresses(post_del) :
                    DOMAIN ChoicesOf(pre_del, a) \cap TrackedKeys # {}}
        /\ \A a \in DOMAIN disappeared_report :
               disappeared_report[a] =
                   { <<key, ChoicesOf(pre_del, a)[key]>> :
                       key \in DOMAIN ChoicesOf(pre_del, a) \cap TrackedKeys }

\* a voter with choice {"139": 100} before and no record after: Choice 139: 100
C8_Witness ==
    /\ pc = "reported"
    /\ \E i \in DOMAIN pre_del :
           /\ "choice" \in DOMAIN pre_del[i]
           /\ pre_del[i].choice = (Str(139) :> 100)
           /\ Lower(pre_del[i].voter) \notin Addresses(post_del)
           /\ Lower(pre_del[i].voter) \in DOMAIN disappeared_report
           /\ disappeared_report[Lower(pre_del[i].voter)] = { <<Str(139), 100>> }

Amount(choices, id) == IF Str(id) \in DOMAIN choices THEN choices[Str(id)] ELSE 0

\* C9: once the choice changes are reported, an address of both snapshots is
\* reported exactly when a target choice ID has a pre amount other than its
\* post amount (an absent ID counting as 0), and it is reported with exactly
\* the changed target IDs, each with its amount before and after.
C9_ChangesReport ==
    pc = "reported" =>
        LET changed(a) ==
                {id \in TARGET_CHOICES :
                    Amount(ChoicesOf(pre_del, a), id) # Amount(ChoicesOf(post_del, a), id)}
        IN /\ DOMAIN changes_report =
                  {a \in Addresses(pre_del) \cap Addresses(post_del) : changed(a) # {}}
           /\ \A a \in DOMAIN changes_report :
                  changes_report[a] =
                      { <<id, Amount(ChoicesOf(pre_del, a), id),
                              Amount(ChoicesOf(post_del, a), id)>> : id \in changed(a) }

\* choice 27 from 50 to 0 beside an unchanged choice 139: only 27 is reported
C9_Witness ==
    /\ pc = "reported"
    /\ \E a \in DOMAIN changes_report :
           /\ changes_report[a] = { <<27, 50, 0>> }
           /\ Str(139) \in DOMAIN ChoicesOf(pre_del, a)
           /\ Str(139) \in DOMAIN ChoicesOf(post_del, a)
           /\ Str(27) \in DOMAIN ChoicesOf(post_del, a)

====
